---- MODULE Spec2Model ----
(***************************************************************************)
(* Model of examples/python/basic_example.py: the WalrusClient HTTP client *)
(* (store_blob, retrieve_blob, check_blob_status) and the main() demo.     *)
(*                                                                         *)
(* The publisher and the aggregator are external services: every answer    *)
(* they give (transport failure, status code, body, headers) is an input   *)
(* drawn from a small set.  The client is modelled by what it does with    *)
(* one exchange; main() is modelled as a sequential process with one step  *)
(* per blocking client call and one step for sys.exit.                     *)
(*                                                                         *)
(* session.put and session.get follow redirects (allow_redirects defaults  *)
(* to True), session.head does not: an exchange of a PUT or a GET is a     *)
(* chain of redirect answers, each followed by a further request, and then *)
(* the answer the client method sees.                                      *)
(*                                                                         *)
(* Two specifications share the variables:                                 *)
(*   Spec        one run of main()                                         *)
(*   SpecClient  a caller with a fresh WalrusClient that may store a blob  *)
(*               and then checks or retrieves a blob, with any arguments   *)
(***************************************************************************)
EXTENDS Integers, Sequences, FiniteSets, TLC

VARIABLES
    pc,              \* position of the running code
    sample_data,     \* bytes handed to store_blob
    store_result,    \* dict returned by store_blob
    blob_id,         \* store_result.get('blobId')
    status,          \* dict returned by check_blob_status
    retrieved_data,  \* bytes returned by retrieve_blob
    is_data_intact,  \* sample_data == retrieved_data
    error,           \* exception that left the last client call
    main_return,     \* value returned by main()
    exit_status,     \* process exit status set by sys.exit
    requests,        \* HTTP requests issued on client.session, in order
    response,        \* the answer the last client call worked on
    calls            \* client calls made so far, in order

vars == <<pc, sample_data, store_result, blob_id, status, retrieved_data,
          is_data_intact, error, main_return, exit_status, requests, response,
          calls>>

----------------------------------------------------------------------------
(* Bounds of the model *)

MaxLen == 1        \* longest byte payload
MaxEpochs == 1     \* largest epochs argument tried besides the default
MaxRedirects == 1  \* redirect answers the services give within one call

----------------------------------------------------------------------------
(* Values *)

Unset == [kind |-> "unset"]                    \* a name not yet bound
UnsetStr == "<unset>"
NoneStr == "None"                              \* Python None where a str may stand
PyNone == [kind |-> "None"]
PyInt(n) == [kind |-> "int", int |-> n]
PyBool(b) == [kind |-> "bool", bool |-> b]
Bytes(c) == [kind |-> "bytes", content |-> c]

Byte == {0, 1}
Payloads == UNION {[1..n -> Byte] : n \in 0..MaxLen}
BlobIds == {"b1", "b2"}

\* json.dumps(...).encode('utf-8') of a dict: never empty, varies with the clock
SampleData == Payloads \ {<<>>}

DEFAULT_EPOCHS == 3
MAIN_EPOCHS == 3
STORE_TIMEOUT == 30
RETRIEVE_TIMEOUT == 30
STATUS_TIMEOUT == 10

----------------------------------------------------------------------------
(* Answers of the remote services *)

StatusCodes == {200, 201, 302, 404, 500}
TransportFailures == {[kind |-> "ConnectionError"], [kind |-> "Timeout"]}

\* parsed body of a PUT answer
JsonBodies ==
    {[type |-> "invalid"], [type |-> "list"]}
    \cup {[type |-> "dict", blobId |-> b] : b \in BlobIds \cup {"", NoneStr}}

Digits == <<"0", "1", "2", "3", "4", "5", "6", "7", "8", "9">>
DecString(n) == Digits[n + 1]
ContentLengths == {NoneStr, "x"} \cup {DecString(n) : n \in 0..MaxLen}
ContentTypes == {NoneStr, "application/octet-stream"}

\* The answer a client call ends on.  The client reads the body and the
\* headers of an answer only after raise_for_status let it through, so 4xx/5xx
\* answers come with one body.  A 302 that ends a PUT or a GET carries no
\* Location header (the session gives up on a chain only after 30 redirects,
\* more than MaxRedirects); a HEAD is never followed.
ErrorCodes == {s \in StatusCodes : 400 <= s /\ s < 600}
PassCodes == StatusCodes \ ErrorCodes

PutResponses ==
    TransportFailures
    \cup {[kind |-> "response", status_code |-> s, json |-> j] :
             s \in PassCodes, j \in JsonBodies}
    \cup {[kind |-> "response", status_code |-> s, json |-> [type |-> "invalid"]] :
             s \in ErrorCodes}
GetResponses ==
    TransportFailures
    \cup {[kind |-> "response", status_code |-> s, content |-> c] :
             s \in PassCodes, c \in Payloads}
    \cup {[kind |-> "response", status_code |-> s, content |-> <<>>] :
             s \in ErrorCodes}
HeadResponses ==
    TransportFailures
    \cup {[kind |-> "response", status_code |-> s,
           content_length |-> l, content_type |-> t] :
             s \in PassCodes, l \in ContentLengths, t \in ContentTypes}
    \cup {[kind |-> "response", status_code |-> s,
           content_length |-> NoneStr, content_type |-> NoneStr] :
             s \in ErrorCodes}

\* Redirect answers (3xx with a Location header) that the session follows.
\* The target is a path of the publisher or a blob id of the aggregator.
PutRedirects ==
    {[status_code |-> s, location |-> "/v1/other"] : s \in {302, 307}}
GetRedirects ==
    {[status_code |-> 302, location |-> id] : id \in BlobIds}
Chains(R) == UNION {[1..n -> R] : n \in 0..MaxRedirects}

----------------------------------------------------------------------------
(* WalrusClient *)

Return(v) == [kind |-> "return", value |-> v]
Raise(e) == [kind |-> "raise", exc |-> e]
HTTPError(s) == [type |-> "HTTPError", status |-> s]

\* response.raise_for_status(): raises for 4xx and 5xx only
raise_for_status(resp) == 400 <= resp.status_code /\ resp.status_code < 600

\* mutant: the payload is left out of the PUT
StoreRequest_NoBody(data, epochs) ==
    [method |-> "PUT", host |-> "publisher", path |-> "/v1/store",
     epochs |-> epochs, body |-> <<>>, timeout |-> STORE_TIMEOUT]

StoreRequest(data, epochs) ==
    [method |-> "PUT", host |-> "publisher", path |-> "/v1/store",
     epochs |-> epochs, body |-> data, timeout |-> STORE_TIMEOUT]
RetrieveRequest(id) ==
    [method |-> "GET", host |-> "aggregator", blob_id |-> id,
     timeout |-> RETRIEVE_TIMEOUT]
StatusRequest(id) ==
    [method |-> "HEAD", host |-> "aggregator", blob_id |-> id,
     timeout |-> STATUS_TIMEOUT]

\* The request the session sends after a redirect answer: 302 and 303 turn
\* every method but HEAD into GET, the body is kept on 307 and 308 only, the
\* URL is the Location (the query string of the first request is gone), the
\* timeout is passed on.
RedirectMethod(m, code) ==
    IF code \in {302, 303} /\ m # "HEAD" THEN "GET" ELSE m
FollowRedirect(req, ans) ==
    IF req.host = "aggregator"
    THEN [method |-> RedirectMethod(req.method, ans.status_code),
          host |-> req.host, blob_id |-> ans.location,
          timeout |-> req.timeout]
    ELSE IF ans.status_code \in {307, 308} /\ "body" \in DOMAIN req
    THEN [method |-> RedirectMethod(req.method, ans.status_code),
          host |-> req.host, path |-> ans.location, body |-> req.body,
          timeout |-> req.timeout]
    ELSE [method |-> RedirectMethod(req.method, ans.status_code),
          host |-> req.host, path |-> ans.location,
          timeout |-> req.timeout]

RECURSIVE Send(_, _, _)
Send(log, req, redirects) ==
    IF Len(redirects) = 0
    THEN Append(log, req)
    ELSE Send(Append(log, req), FollowRedirect(req, Head(redirects)),
              Tail(redirects))

\* mutant: a request that failed is sent a second time
Issue_Retry(log, req, redirects, resp) ==
    LET sent == Send(log, req, redirects) IN
    IF resp.kind # "response" \/ raise_for_status(resp)
    THEN Append(sent, sent[Len(sent)])
    ELSE sent

\* one session.put / session.get / session.head: the request goes out, then
\* one request per redirect answer followed; nothing is sent again after the
\* last answer, whatever it is
Issue(log, req, redirects, resp) == Send(log, req, redirects)

Call(op, redirects) ==
    [op |-> op, first |-> Len(requests) + 1, redirects |-> redirects]

\* int(x) of a header value
IsInt(s) == \E n \in 0..9 : DecString(n) = s
int(s) == CHOOSE n \in 0..9 : DecString(n) = s

store_blob(resp) ==
    IF resp.kind # "response" THEN Raise([type |-> resp.kind])
    ELSE IF raise_for_status(resp) THEN Raise(HTTPError(resp.status_code))
    ELSE IF resp.json.type = "invalid" THEN Raise([type |-> "JSONDecodeError"])
    ELSE IF resp.json.type # "dict" THEN Raise([type |-> "AttributeError"])
    ELSE Return(resp.json)

\* mutant: the status of the answer is not looked at
retrieve_blob_NoRaise(resp) ==
    IF resp.kind # "response" THEN Raise([type |-> resp.kind])
    ELSE Return(Bytes(resp.content))

retrieve_blob(resp) ==
    IF resp.kind # "response" THEN Raise([type |-> resp.kind])
    ELSE IF raise_for_status(resp) THEN Raise(HTTPError(resp.status_code))
    ELSE Return(Bytes(resp.content))

\* mutant: every HTTP error status is reported as a missing blob
check_blob_status_AnyHTTPError(resp) ==
    IF resp.kind # "response" THEN Raise([type |-> resp.kind])
    ELSE IF raise_for_status(resp) THEN Return([exists |-> FALSE])
    ELSE IF resp.content_length # NoneStr /\ ~IsInt(resp.content_length)
         THEN Raise([type |-> "ValueError"])
    ELSE Return([exists |-> TRUE,
                 size |-> IF resp.content_length = NoneStr
                          THEN 0 ELSE int(resp.content_length),
                 content_type |-> IF resp.content_type = NoneStr
                                  THEN "unknown" ELSE resp.content_type])

\* mutant: the content-length header is not read
check_blob_status_NoSize(resp) ==
    IF resp.kind # "response" THEN Raise([type |-> resp.kind])
    ELSE IF raise_for_status(resp)
         THEN IF resp.status_code = 404
              THEN Return([exists |-> FALSE])
              ELSE Raise(HTTPError(resp.status_code))
    ELSE IF resp.content_length # NoneStr /\ ~IsInt(resp.content_length)
         THEN Raise([type |-> "ValueError"])
    ELSE Return([exists |-> TRUE,
                 size |-> 0,
                 content_type |-> IF resp.content_type = NoneStr
                                  THEN "unknown" ELSE resp.content_type])

check_blob_status(resp) ==
    IF resp.kind # "response" THEN Raise([type |-> resp.kind])
    ELSE IF raise_for_status(resp)
         THEN IF resp.status_code = 404
              THEN Return([exists |-> FALSE])
              ELSE Raise(HTTPError(resp.status_code))
    ELSE IF resp.content_length # NoneStr /\ ~IsInt(resp.content_length)
         THEN Raise([type |-> "ValueError"])
    ELSE Return([exists |-> TRUE,
                 size |-> IF resp.content_length = NoneStr
                          THEN 0 ELSE int(resp.content_length),
                 content_type |-> IF resp.content_type = NoneStr
                                  THEN "unknown" ELSE resp.content_type])

----------------------------------------------------------------------------
(* main() *)

\* mutant: the blobId of the store result is not tested
Truthy_Always(b) == TRUE

\* Python truth value of store_result.get('blobId')
Truthy(b) == b \notin {NoneStr, ""}

\* mutant: the except block falls through to the final return
MainExcept_Zero == PyInt(0)

\* the except Exception block of main
MainExcept == PyInt(1)
\* the bare return after a store result without blobId
MainNoBlobId == PyNone
\* the final return of main; the integrity check only prints
MainEnd(intact) == PyInt(0)

\* sys.exit(main())
sys_exit(v) == IF v.kind = "None" THEN 0 ELSE v.int

Init ==
    /\ pc = "start"
    /\ sample_data = Unset
    /\ store_result = Unset
    /\ blob_id = UnsetStr
    /\ status = Unset
    /\ retrieved_data = Unset
    /\ is_data_intact = Unset
    /\ error = Unset
    /\ main_return = Unset
    /\ exit_status = Unset
    /\ requests = <<>>
    /\ response = Unset
    /\ calls = <<>>

MainStore ==
    /\ pc = "start"
    /\ \E d \in SampleData, redirects \in Chains(PutRedirects),
          resp \in PutResponses :
         LET out == store_blob(resp) IN
         /\ sample_data' = Bytes(d)
         /\ requests' = Issue(requests, StoreRequest(d, MAIN_EPOCHS),
                              redirects, resp)
         /\ calls' = Append(calls, Call("store_blob", redirects))
         /\ response' = resp
         /\ IF out.kind = "raise"
            THEN /\ error' = out.exc
                 /\ main_return' = MainExcept
                 /\ pc' = "return"
                 /\ UNCHANGED <<store_result, blob_id>>
            ELSE /\ store_result' = out.value
                 /\ blob_id' = out.value.blobId
                 /\ IF ~Truthy(out.value.blobId)
                    THEN main_return' = MainNoBlobId /\ pc' = "return"
                    ELSE pc' = "check_status" /\ UNCHANGED main_return
                 /\ UNCHANGED error
    /\ UNCHANGED <<status, retrieved_data, is_data_intact, exit_status>>

MainCheckStatus ==
    /\ pc = "check_status"
    /\ \E resp \in HeadResponses :
         LET out == check_blob_status(resp) IN
         /\ requests' = Issue(requests, StatusRequest(blob_id), <<>>, resp)
         /\ calls' = Append(calls, Call("check_blob_status", <<>>))
         /\ response' = resp
         /\ IF out.kind = "raise"
            THEN /\ error' = out.exc
                 /\ main_return' = MainExcept
                 /\ pc' = "return"
                 /\ UNCHANGED status
            ELSE /\ status' = out.value
                 /\ pc' = "retrieve"
                 /\ UNCHANGED <<error, main_return>>
    /\ UNCHANGED <<sample_data, store_result, blob_id, retrieved_data,
                   is_data_intact, exit_status>>

MainRetrieve ==
    /\ pc = "retrieve"
    /\ \E redirects \in Chains(GetRedirects), resp \in GetResponses :
         LET out == retrieve_blob(resp) IN
         /\ requests' = Issue(requests, RetrieveRequest(blob_id),
                              redirects, resp)
         /\ calls' = Append(calls, Call("retrieve_blob", redirects))
         /\ response' = resp
         /\ IF out.kind = "raise"
            THEN /\ error' = out.exc
                 /\ main_return' = MainExcept
                 /\ UNCHANGED <<retrieved_data, is_data_intact>>
            ELSE /\ retrieved_data' = out.value
                 /\ is_data_intact' = PyBool(sample_data = out.value)
                 /\ main_return' = MainEnd(sample_data = out.value)
                 /\ UNCHANGED error
         /\ pc' = "return"
    /\ UNCHANGED <<sample_data, store_result, blob_id, status, exit_status>>

ProcessExit ==
    /\ pc = "return"
    /\ exit_status' = sys_exit(main_return)
    /\ pc' = "exited"
    /\ UNCHANGED <<sample_data, store_result, blob_id, status, retrieved_data,
                   is_data_intact, error, main_return, requests, response,
                   calls>>

Next == MainStore \/ MainCheckStatus \/ MainRetrieve \/ ProcessExit

Spec == Init /\ [][Next]_vars

----------------------------------------------------------------------------
(* A caller with a fresh WalrusClient: it may call store_blob, and then it *)
(* calls check_blob_status or retrieve_blob, each with any argument.  The  *)
(* client keeps nothing between calls but the session, so longer call      *)
(* sequences repeat these steps.  sample_data, store_result and blob_id    *)
(* describe the store_blob call; status, retrieved_data and error hold the *)
(* outcome of the latest call.                                             *)

Epochs == (1..MaxEpochs) \cup {DEFAULT_EPOCHS}

InitClient ==
    /\ pc = "client"
    /\ sample_data = Unset
    /\ store_result = Unset
    /\ blob_id = UnsetStr
    /\ status = Unset
    /\ retrieved_data = Unset
    /\ is_data_intact = Unset
    /\ error = Unset
    /\ main_return = Unset
    /\ exit_status = Unset
    /\ requests = <<>>
    /\ response = Unset
    /\ calls = <<>>

ClientStore ==
    /\ pc = "client"
    /\ \E data \in Payloads, epochs \in Epochs,
          redirects \in Chains(PutRedirects), resp \in PutResponses :
         LET out == store_blob(resp) IN
         /\ sample_data' = Bytes(data)
         /\ requests' = Issue(requests, StoreRequest(data, epochs),
                              redirects, resp)
         /\ calls' = Append(calls, Call("store_blob", redirects))
         /\ response' = resp
         /\ store_result' = IF out.kind = "return" THEN out.value ELSE Unset
         /\ blob_id' = IF out.kind = "return" THEN out.value.blobId ELSE UnsetStr
         /\ error' = IF out.kind = "raise" THEN out.exc ELSE Unset
    /\ pc' = "stored"
    /\ UNCHANGED <<status, retrieved_data, is_data_intact, main_return,
                   exit_status>>

ClientCheckStatus ==
    /\ pc \in {"client", "stored"}
    /\ \E id \in BlobIds, resp \in HeadResponses :
         LET out == check_blob_status(resp) IN
         /\ requests' = Issue(requests, StatusRequest(id), <<>>, resp)
         /\ calls' = Append(calls, Call("check_blob_status", <<>>))
         /\ response' = resp
         /\ status' = IF out.kind = "return" THEN out.value ELSE Unset
         /\ error' = IF out.kind = "raise" THEN out.exc ELSE Unset
    /\ pc' = "done"
    /\ UNCHANGED <<sample_data, store_result, blob_id, retrieved_data,
                   is_data_intact, main_return, exit_status>>

ClientRetrieve ==
    /\ pc \in {"client", "stored"}
    /\ \E id \in BlobIds, redirects \in Chains(GetRedirects),
          resp \in GetResponses :
         LET out == retrieve_blob(resp) IN
         /\ requests' = Issue(requests, RetrieveRequest(id), redirects, resp)
         /\ calls' = Append(calls, Call("retrieve_blob", redirects))
         /\ response' = resp
         /\ retrieved_data' = IF out.kind = "return" THEN out.value ELSE Unset
         /\ error' = IF out.kind = "raise" THEN out.exc ELSE Unset
    /\ pc' = "done"
    /\ UNCHANGED <<sample_data, store_result, blob_id, status,
                   is_data_intact, main_return, exit_status>>

NextClient == ClientStore \/ ClientCheckStatus \/ ClientRetrieve

SpecClient == InitClient /\ [][NextClient]_vars

----------------------------------------------------------------------------
(* Properties *)

Is2xx(resp) ==
    resp.kind = "response" /\ 200 <= resp.status_code /\ resp.status_code < 300
IsTransportFailure(resp) == resp.kind \in {"ConnectionError", "Timeout"}
IsTransportError(e) == e # Unset /\ e.type \in {"ConnectionError", "Timeout"}

InClient == pc \in {"client", "stored", "done"}
Called == Len(calls) > 0
LastCall == calls[Len(calls)]
\* the request a call started with, and the last request it sent
FirstRequest(c) == requests[c.first]
LastIndex(c) == c.first + Len(c.redirects)

\* the caller of SpecClient has just called op
JustCalled(op) == InClient /\ Called /\ LastCall.op = op

\* the caller holds the id of a successful store_blob and has just called
\* op on that id
CalledOnStored(op) ==
    /\ JustCalled(op)
    /\ Len(calls) = 2
    /\ store_result # Unset
    /\ Truthy(blob_id)
    /\ FirstRequest(LastCall).blob_id = blob_id

\* the GET was answered 2xx with the bytes the publisher was sent for the blob
ServedStoredBytes ==
    Is2xx(response) /\ response.content = FirstRequest(calls[1]).body

\* C1: round trip. After store_blob(P, e) returned blob id b, a retrieve_blob(b)
\* that the aggregator answers with the bytes stored under b returns exactly P.
C1_RoundTrip ==
    (CalledOnStored("retrieve_blob") /\ ServedStoredBytes)
        => retrieved_data = sample_data

C1_Witness ==
    /\ CalledOnStored("retrieve_blob")
    /\ ServedStoredBytes
    /\ Len(sample_data.content) > 0
    /\ FirstRequest(calls[1]).epochs = 1
    /\ retrieved_data = sample_data

\* C2: check_blob_status returns {exists: False} exactly when the HEAD is
\* answered 404; a transport failure or any other error status is raised and
\* never reported as {exists: False}.
C2_NotFoundOnly ==
    JustCalled("check_blob_status") =>
        /\ (status = [exists |-> FALSE]) <=>
              (response.kind = "response" /\ response.status_code = 404)
        /\ (status = [exists |-> FALSE]) => error = Unset
        /\ (IsTransportFailure(response)
              \/ (response.kind = "response" /\ raise_for_status(response)
                    /\ response.status_code # 404))
             => (error # Unset /\ status = Unset)

C2_Witness ==
    /\ JustCalled("check_blob_status")
    /\ status = [exists |-> FALSE]
    /\ error = Unset

\* C3: main exits with status 0 when store, status check and retrieve all
\* succeeded, and with status 1 whenever one of them raised.
C3_ExitStatus ==
    pc = "exited" =>
        /\ (store_result # Unset /\ status # Unset /\ retrieved_data # Unset)
             => exit_status = 0
        /\ error # Unset => exit_status = 1

C3_Witness ==
    /\ pc = "exited"
    /\ Len(calls) = 3
    /\ error # Unset
    /\ exit_status = 1

\* C4: a run of main whose retrieved bytes differ from the stored bytes ends
\* with exit status 1.
C4_IntegrityFailureIsError ==
    (pc = "exited" /\ retrieved_data # Unset /\ retrieved_data # sample_data)
        => exit_status = 1

\* C5: store_blob returns a result only for a 2xx answer; a transport failure
\* raises a transport error and every non-2xx answer raises an error that is
\* not a transport error; in neither case is a result returned.
C5_StoreOnly2xx ==
    JustCalled("store_blob") =>
        /\ store_result # Unset => Is2xx(response)
        /\ IsTransportFailure(response)
             => (IsTransportError(error) /\ store_result = Unset)
        /\ (response.kind = "response" /\ ~Is2xx(response))
             => (error # Unset /\ ~IsTransportError(error)
                   /\ store_result = Unset)

\* C6 as stated: retrieve_blob raises a not-found error on 404 and a transport
\* error on every other failure, and returns no bytes.
C6_TransportOtherwise ==
    JustCalled("retrieve_blob") =>
        /\ (response.kind = "response" /\ response.status_code = 404)
             => (error = HTTPError(404) /\ retrieved_data = Unset)
        /\ (IsTransportFailure(response)
              \/ (response.kind = "response" /\ raise_for_status(response)
                    /\ response.status_code # 404))
             => (IsTransportError(error) /\ retrieved_data = Unset)

\* C6 amended: retrieve_blob raises an HTTP error carrying 404 on a 404 answer,
\* an HTTP error carrying the status on every other 4xx/5xx answer, and a
\* transport error on a connection failure or timeout; no bytes are returned
\* in any of these cases.
C6_ErrorKinds ==
    JustCalled("retrieve_blob") =>
        /\ (response.kind = "response" /\ raise_for_status(response))
             => (error = HTTPError(response.status_code) /\ retrieved_data = Unset)
        /\ IsTransportFailure(response)
             => (IsTransportError(error) /\ error.type = response.kind
                   /\ retrieved_data = Unset)

C6_Witness ==
    /\ JustCalled("retrieve_blob")
    /\ response.kind = "response" /\ response.status_code = 500
    /\ error = HTTPError(500)
    /\ retrieved_data = Unset

\* C7 as stated: every client call of main() issues exactly one HTTP request.
C7_OneRequestPerCall ==
    /\ Len(requests) = Len(calls)
    /\ \A i, j \in 1..Len(requests) :
         requests[i].method = requests[j].method => i = j

\* C7 amended: no retries. A store_blob or retrieve_blob call of main() issues
\* one HTTP request and one more for each redirect answer it follows, a
\* check_blob_status call issues exactly one; nothing is sent after the answer
\* the call ends on, and no call follows a call that raised.
C7_NoResend ==
    [][/\ Len(calls') \in {Len(calls), Len(calls) + 1}
       /\ Len(calls') = Len(calls) => Len(requests') = Len(requests)
       /\ Len(calls') = Len(calls) + 1 =>
            /\ error = Unset
            /\ calls'[Len(calls')].first = Len(requests) + 1
            /\ Len(requests') = Len(requests) + 1
                                  + Len(calls'[Len(calls')].redirects)
            /\ calls'[Len(calls')].op = "check_blob_status"
                 => Len(requests') = Len(requests) + 1]_vars

C7_Witness ==
    /\ pc = "exited"
    /\ error # Unset
    /\ Len(calls) = 1
    /\ Len(calls[1].redirects) = 1
    /\ Len(requests) = 2

\* C8 as stated: check_blob_status on a just-stored blob returns exists = True
\* and size = len(P) for every 2xx HEAD answer for that blob (an answer that
\* does not misreport the length).
C8_SizeAlways ==
    (CalledOnStored("check_blob_status") /\ Is2xx(response)
       /\ response.content_length
            \in {NoneStr, DecString(Len(sample_data.content))})
      => (status # Unset /\ status.exists
            /\ status.size = Len(sample_data.content))

\* C8 amended: check_blob_status on a just-stored blob, answered 2xx to its
\* HEAD. When the content-length header is a decimal integer it returns
\* exists = True with size equal to that integer, so size = len(P) when the
\* header carries the blob's length; when the header is absent it returns
\* exists = True with size = 0; when the header is not an integer it raises
\* ValueError and returns no status.
C8_SizeFromHeader ==
    (CalledOnStored("check_blob_status") /\ Is2xx(response)) =>
        /\ \A n \in 0..9 :
             response.content_length = DecString(n)
               => (status # Unset /\ status.exists /\ status.size = n
                     /\ error = Unset)
        /\ response.content_length = DecString(Len(sample_data.content))
             => (status # Unset /\ status.exists
                   /\ status.size = Len(sample_data.content))
        /\ response.content_length = NoneStr
             => (status # Unset /\ status.exists /\ status.size = 0
                   /\ error = Unset)
        /\ response.content_length \notin
               ({NoneStr} \cup {DecString(n) : n \in 0..9})
             => (error = [type |-> "ValueError"] /\ status = Unset)

C8_Witness ==
    /\ CalledOnStored("check_blob_status")
    /\ Is2xx(response)
    /\ Len(sample_data.content) = 1
    /\ response.content_length = "1"
    /\ status # Unset
    /\ status.exists
    /\ status.size = 1

\* C9 as stated: main() issues at most three requests, in the order PUT, HEAD,
\* GET; the HEAD follows a store that returned a non-empty blobId, the GET
\* follows a status check that returned, and both name the blobId the PUT
\* returned.
C9_RequestOrder ==
    /\ Len(requests) <= 3
    /\ Len(requests) >= 1 => requests[1].method = "PUT"
    /\ Len(requests) >= 2 =>
         /\ requests[2].method = "HEAD"
         /\ store_result # Unset
         /\ store_result.blobId \in BlobIds
         /\ requests[2].blob_id = store_result.blobId
    /\ Len(requests) >= 3 =>
         /\ requests[3].method = "GET"
         /\ status # Unset
         /\ requests[3].blob_id = store_result.blobId

\* C9 amended: main() makes at most three client calls, in the order
\* store_blob, check_blob_status, retrieve_blob, which start with a PUT, a HEAD
\* and a GET; every other request is the follow-up of a redirect answer within
\* the PUT or the GET call. The HEAD follows a store that returned a non-empty
\* blobId, the GET follows a status check that returned, and both name the
\* blobId the store returned.
C9_CallOrder ==
    /\ Len(calls) <= 3
    /\ Len(calls) = 0 => Len(requests) = 0
    /\ Len(calls) >= 1 =>
         /\ Len(requests) = LastIndex(LastCall)
         /\ calls[1].op = "store_blob"
         /\ calls[1].first = 1
         /\ FirstRequest(calls[1]).method = "PUT"
    /\ Len(calls) >= 2 =>
         /\ calls[2].op = "check_blob_status"
         /\ calls[2].first = LastIndex(calls[1]) + 1
         /\ calls[2].redirects = <<>>
         /\ FirstRequest(calls[2]).method = "HEAD"
         /\ store_result # Unset
         /\ store_result.blobId \in BlobIds
         /\ FirstRequest(calls[2]).blob_id = store_result.blobId
    /\ Len(calls) >= 3 =>
         /\ calls[3].op = "retrieve_blob"
         /\ calls[3].first = LastIndex(calls[2]) + 1
         /\ FirstRequest(calls[3]).method = "GET"
         /\ status # Unset
         /\ FirstRequest(calls[3]).blob_id = store_result.blobId

C9_Witness ==
    /\ Len(calls) = 3
    /\ status = [exists |-> FALSE]
    /\ Len(calls[1].redirects) = 1
    /\ Len(calls[3].redirects) = 1
    /\ Len(requests) = 5
    /\ FirstRequest(calls[3]).blob_id = blob_id

\* C10: a run of main that exits with status 0 stored a blob, got its id and
\* retrieved it.
C10_ZeroImpliesCompletion ==
    (pc = "exited" /\ exit_status = 0) =>
        /\ store_result # Unset
        /\ Truthy(blob_id)
        /\ retrieved_data # Unset

====
